---- MODULE Spec2Model ----
(***************************************************************************)
(* Model of app.py: a Telegram bot that links a Google Calendar account    *)
(* through OAuth and sends reminders for upcoming events.                  *)
(*                                                                         *)
(* State: the in-memory users_storage dict (insertion ordered), the Flask  *)
(* sessions of the browsers doing the OAuth handshake, the bot token, the  *)
(* clock and the position of the background job check_upcoming_events in   *)
(* its iteration over users_storage.  Every request handler is one action; *)
(* the background job is one action per loop iteration, because request    *)
(* handlers run in other threads while it waits for the calendar.          *)
(*                                                                         *)
(* last holds what the operation that ran last did, watch the history of   *)
(* one event over the firings of the job.                                  *)
(*                                                                         *)
(* Time is counted in ticks, TicksPerMinute ticks to a minute.  A dateTime *)
(* string is modelled by its wall clock reading and its UTC offset, the    *)
(* instant it denotes being wall - off.                                    *)
(***************************************************************************)
EXTENDS Integers, Sequences, FiniteSets, TLC

VARIABLES users_storage, session, TELEGRAM_BOT_TOKEN, now, job, fetch_failed, last, watch

vars == <<users_storage, session, TELEGRAM_BOT_TOKEN, now, job, fetch_failed, last, watch>>

(***************************************************************************)
(* Bounds of the model.                                                    *)
(***************************************************************************)
NumUsers == 2
NumChats == 1
NumSessions == 1
NumTokens == 1
NumStates == 1
MaxEvents == 2
MaxNow == 1
TicksPerMinute == 2
MaxMinutes == 4

(***************************************************************************)
(* Values.  Python's None (and the empty string, equally falsy) is 0; user *)
(* ids, chat ids, OAuth tokens and anti-forgery states are positive.       *)
(***************************************************************************)
None == 0

UserIds == 1..NumUsers
ChatIds == 1..NumChats
Sessions == 1..NumSessions
Tokens == 1..NumTokens
OAuthStates == 1..NumStates

\* the reminder band of check_upcoming_events, in minutes
BandLow == 14
BandHigh == 16
\* /events lists events[:5]
ListLimit == 5

\* the UTC offset of the calendar's time zone: three hours, in ticks
OffsetTicks == 3 * 60 * TicksPerMinute

NoSummary == "<absent>"
DefaultSummary == "Bez nazvaniya"

(***************************************************************************)
(* Calendar events as the API returns them.  start.kind is "dateTime" for  *)
(* a start with a 'dateTime' key, "date" for an all-day start with only a  *)
(* 'date' key and "none" for an event without a start value.               *)
(***************************************************************************)
Event(id, summary, kind, wall, off) ==
    [id |-> id, summary |-> summary, start |-> [kind |-> kind, wall |-> wall, off |-> off]]

\* written in UTC ('Z'): exactly 14 minutes after time 0
EvLow == Event("low", "A", "dateTime", BandLow * TicksPerMinute, 0)
\* written in UTC ('Z'): one tick more than 16 minutes after time 0
EvHigh == Event("high", "B", "dateTime", BandHigh * TicksPerMinute + 1, 0)
\* 15 minutes after time 0, written with offset +03:00
EvPlus == Event("plus", "C", "dateTime", (BandLow + 1) * TicksPerMinute + OffsetTicks, OffsetTicks)
\* wall clock reading 15 minutes after time 0, offset -03:00: starts 3 h 15 min after time 0
EvMinus == Event("minus", NoSummary, "dateTime", (BandLow + 1) * TicksPerMinute, 0 - OffsetTicks)
\* all-day event
EvDate == Event("allday", "D", "date", 0, 0)
\* event without a start value
EvNoStart == Event("nostart", "N", "none", 0, 0)
\* written in UTC ('Z'): 15 minutes after time 0, the instant EvPlus denotes
EvZulu == Event("zulu", "Z", "dateTime", (BandLow + 1) * TicksPerMinute, 0)
\* written in UTC ('Z'): one tick more than 17 minutes after time 0
EvSoon == Event("soon", "S", "dateTime", (BandHigh + 1) * TicksPerMinute + 1, 0)

Events == {EvLow, EvHigh, EvPlus, EvMinus, EvDate, EvNoStart, EvZulu}

RECURSIVE SeqsUpTo(_, _)
SeqsUpTo(S, n) ==
    IF n = 0 THEN {<<>>}
    ELSE LET shorter == SeqsUpTo(S, n - 1)
         IN shorter \cup {Append(s, x) : s \in {t \in shorter : Len(t) = n - 1}, x \in S}

EventLists == SeqsUpTo(Events, MaxEvents)

\* what the calendar API call does: fails, or returns a list of events
NoApi == [ok |-> FALSE, items |-> <<>>]

ApiResults == {NoApi} \cup {[ok |-> TRUE, items |-> l] : l \in EventLists}

\* the same with at most one event
ApiBrief == {a \in ApiResults : Len(a.items) <= 1}

\* the calendar of a user with the event EvSoon ahead
ApiTimer ==
    {NoApi, [ok |-> TRUE, items |-> <<>>], [ok |-> TRUE, items |-> <<EvSoon>>],
     [ok |-> TRUE, items |-> <<EvNoStart, EvSoon>>], [ok |-> TRUE, items |-> <<EvSoon, EvDate>>]}

(***************************************************************************)
(* users_storage: a Python dict, kept as the sequence of its items in      *)
(* insertion order.                                                        *)
(***************************************************************************)
Keys(d) == {d[i].key : i \in 1..Len(d)}

IndexOf(d, k) == CHOOSE i \in 1..Len(d) : d[i].key = k

Get(d, k) == d[IndexOf(d, k)].value

\* a plausible slip: "users_storage = {k: v}" for "users_storage[k] = v"
PutFresh(d, k, v) == <<[key |-> k, value |-> v]>>

\* a plausible slip: a present record is updated in place, keeping its chat_id
PutMerging(d, k, v) ==
    IF k \in Keys(d)
    THEN [d EXCEPT ![IndexOf(d, k)] =
             [key |-> k, value |-> [credentials |-> v.credentials,
                                    chat_id |-> d[IndexOf(d, k)].value.chat_id]]]
    ELSE Append(d, [key |-> k, value |-> v])

\* d[k] = v: a present key keeps its place, a new key goes last
Put(d, k, v) ==
    IF k \in Keys(d)
    THEN [d EXCEPT ![IndexOf(d, k)] = [key |-> k, value |-> v]]
    ELSE Append(d, [key |-> k, value |-> v])

\* Python truthiness of a string or None
Truthy(x) == x # None

(***************************************************************************)
(* Message texts, by template and the values formatted into them.          *)
(***************************************************************************)
Text(kind, summary, user_id, chat_id, lines) ==
    [kind |-> kind, summary |-> summary, user_id |-> user_id, chat_id |-> chat_id, lines |-> lines]

ReminderText(summary) == Text("reminder", summary, None, None, <<>>)
ConfirmationText == Text("connected", "", None, None, <<>>)
StartText(user_id, chat_id) == Text("start_link", "", user_id, chat_id, <<>>)
EventsText(lines) == Text("events_list", "", None, None, lines)
NoEventsText == Text("no_events", "", None, None, <<>>)
NotConnectedPromptText == Text("connect_first", "", None, None, <<>>)
StatusConnectedText == Text("status_connected", "", None, None, <<>>)
StatusNotConnectedText == Text("status_not_connected", "", None, None, <<>>)
HelpText == Text("help", "", None, None, <<>>)

(***************************************************************************)
(* send_telegram_message.  accepted: whether the platform takes the POST   *)
(* (raise_for_status does not raise).  posts: the HTTP requests made, each *)
(* with the platform's answer and what the call then returned.             *)
(***************************************************************************)
\* the platform rejects a request without a bot token or without a chat
PlatformAccepts(token, chat_id, net) == token # None /\ chat_id # None /\ net

\* a plausible slip: no try/except around the POST
send_telegram_message_raising(chat_id, text, accepted) ==
    [posts |-> <<[chat_id |-> chat_id, text |-> text, ok |-> accepted, ret |-> accepted]>>,
     ret |-> accepted,
     raised |-> ~accepted]

\* one POST; ret: the value returned to the caller
send_telegram_message(chat_id, text, accepted) ==
    [posts |-> <<[chat_id |-> chat_id, text |-> text, ok |-> accepted, ret |-> accepted]>>,
     ret |-> accepted,
     raised |-> FALSE]

(***************************************************************************)
(* get_calendar_events: the API's items, or [] when anything fails.        *)
(***************************************************************************)
\* a plausible slip: the except clause re-raises
get_calendar_events_raising(credentials_dict, api) ==
    IF "token" \in DOMAIN credentials_dict /\ api.ok
    THEN [events |-> api.items, raised |-> FALSE]
    ELSE [events |-> <<>>, raised |-> TRUE]

get_calendar_events(credentials_dict, api) ==
    IF "token" \in DOMAIN credentials_dict /\ api.ok
    THEN [events |-> api.items, raised |-> FALSE]
    ELSE [events |-> <<>>, raised |-> FALSE]

(***************************************************************************)
(* The body of the event loop of check_upcoming_events.                    *)
(***************************************************************************)
\* start.get('dateTime', start.get('date'))
StartTime(event) == event.start

\* 'T' in start_time
HasT(start_time) == start_time.kind = "dateTime"

\* datetime.fromisoformat(start_time.replace('Z', '+00:00')): an aware datetime
FromIsoFormat(start_time) == [wall |-> start_time.wall, off |-> start_time.off]

\* event_time.replace(tzinfo=None): the wall clock reading, the offset dropped
ReplaceTzinfoNone(event_time) == event_time.wall

\* (event_time_naive - now).total_seconds() / 60, in ticks
TimeDiff(start_time, t) == ReplaceTzinfoNone(FromIsoFormat(start_time)) - t

\* 14 <= time_diff <= 16
InBand(time_diff) ==
    BandLow * TicksPerMinute <= time_diff /\ time_diff <= BandHigh * TicksPerMinute

\* event.get('summary', 'Без названия')
SummaryOf(event) == IF event.summary = NoSummary THEN DefaultSummary ELSE event.summary

\* lines 113-126 from event i on: the posts made, and whether the loop raised
RECURSIVE RemindFrom(_, _, _, _, _, _)
RemindFrom(events, i, chat_id, t, token, nets) ==
    IF i > Len(events) THEN [posts |-> <<>>, raised |-> FALSE]
    ELSE LET event == events[i]
             start_time == StartTime(event)
             sent == send_telegram_message(chat_id, ReminderText(SummaryOf(event)),
                         PlatformAccepts(token, chat_id, nets[i]))
             rest == RemindFrom(events, i + 1, chat_id, t, token, nets)
         IN IF start_time.kind = "none"
            THEN [posts |-> <<>>, raised |-> TRUE]
            ELSE IF HasT(start_time) /\ InBand(TimeDiff(start_time, t))
            THEN IF sent.raised
                 THEN [posts |-> sent.posts, raised |-> TRUE]
                 ELSE [posts |-> sent.posts \o rest.posts, raised |-> rest.raised]
            ELSE rest

\* line 106: the record lacks one of its two keys
SkipRecord(user_data) ==
    "credentials" \notin DOMAIN user_data \/ "chat_id" \notin DOMAIN user_data

\* a plausible slip: the try/except around the whole for loop, not inside it
check_user_escaping(user_data, api, t, token, nets) ==
    IF SkipRecord(user_data)
    THEN [fetches |-> <<>>, events |-> <<>>, posts |-> <<>>, raised |-> FALSE, caught |-> FALSE]
    ELSE LET got == get_calendar_events(user_data.credentials, api)
             loop == RemindFrom(got.events, 1, user_data.chat_id, t, token, nets)
         IN [fetches |-> <<user_data.credentials>>, events |-> got.events,
             posts |-> loop.posts, raised |-> got.raised \/ loop.raised, caught |-> FALSE]

\* lines 106-129 for one item of users_storage
check_user(user_data, api, t, token, nets) ==
    IF SkipRecord(user_data)
    THEN [fetches |-> <<>>, events |-> <<>>, posts |-> <<>>, raised |-> FALSE, caught |-> FALSE]
    ELSE LET got == get_calendar_events(user_data.credentials, api)
             loop == RemindFrom(got.events, 1, user_data.chat_id, t, token, nets)
         IN [fetches |-> <<user_data.credentials>>, events |-> got.events,
             posts |-> loop.posts, raised |-> FALSE, caught |-> got.raised \/ loop.raised]


(***************************************************************************)
(* The /events reply and the GET /events/<user_id> body.                   *)
(***************************************************************************)
\* events[:5]
FirstN(events, n) == SubSeq(events, 1, IF Len(events) < n THEN Len(events) ELSE n)

\* start_time[:16].replace('T', ' '): the date, or the wall clock reading to the minute
Truncate16(start_time) ==
    [kind |-> start_time.kind,
     minute |-> IF start_time.kind = "dateTime" THEN start_time.wall \div TicksPerMinute ELSE 0]

\* lines 255-260: the reply lines, and whether formatting raised (None[:16])
FormatEvents(events) ==
    LET shown == FirstN(events, ListLimit)
    IN [lines |-> [i \in 1..Len(shown) |->
                      [summary |-> SummaryOf(shown[i]), at |-> Truncate16(StartTime(shown[i]))]],
        raised |-> \E i \in 1..Len(shown) : StartTime(shown[i]).kind = "none"]

(***************************************************************************)
(* What an operation did: its response, the calendar fetches and the       *)
(* Telegram posts it made, whether an except clause ran (caught), whether  *)
(* the job's fetch before this one failed for the user (refetch), whether  *)
(* the token exchange succeeded (exchanged); for the webhook the shape of   *)
(* the payload, for the callback the state parameter of the authorization  *)
(* response and the record it built.                                       *)
(***************************************************************************)
NoRecord == [credentials |-> [token |-> None, refresh_token |-> None], chat_id |-> None]

Outcome(op, user_id, chat_id, status, reply, fetches, events, posts, caught) ==
    [op |-> op, user_id |-> user_id, chat_id |-> chat_id, status |-> status, reply |-> reply,
     fetches |-> fetches, events |-> events, posts |-> posts, caught |-> caught,
     refetch |-> FALSE, exchanged |-> FALSE, shape |-> "", state |-> None, record |-> NoRecord]

\* no operation is running: the last one has returned
Quiet == Outcome("", None, None, 0, "", <<>>, <<>>, <<>>, FALSE)

NoSession == [telegram_user_id |-> None, chat_id |-> None, state |-> None]

IdleJob == [pc |-> "idle", di_pos |-> 0, di_used |-> 0, failed |-> {}]

\* history of the event EvSoon in the calendar of the user Watched: in how many
\* firings the fetch returned it, how many reminder send calls were made for it
NoWatch == [fetched |-> 0, reminded |-> 0]

Watched == CHOOSE u \in UserIds : \A v \in UserIds : u <= v

SendsOf(posts, text) == Cardinality({j \in 1..Len(posts) : posts[j].text = text})

Init ==
    /\ users_storage = <<>>
    /\ session = [s \in Sessions |-> NoSession]
    /\ TELEGRAM_BOT_TOKEN \in {None, 1}
    /\ now = 0
    /\ job = IdleJob
    /\ fetch_failed = {}
    /\ last = Quiet
    /\ watch = NoWatch

\* the clock advances
Tick ==
    /\ last = Quiet
    /\ now < MaxNow
    /\ now' = now + 1
    /\ UNCHANGED <<users_storage, session, TELEGRAM_BOT_TOKEN, job, fetch_failed, last, watch>>

(***************************************************************************)
(* The background job check_upcoming_events, lines 101-129.                *)
(***************************************************************************)
\* the interval trigger fires; the for statement takes an iterator of the dict
Fire ==
    /\ last = Quiet
    /\ job.pc = "idle"
    /\ job' = [pc |-> "iter", di_pos |-> 0, di_used |-> Len(users_storage), failed |-> {}]
    /\ last' = Outcome("fire", None, None, 0, "", <<>>, <<>>, <<>>, FALSE)
    /\ UNCHANGED <<users_storage, session, TELEGRAM_BOT_TOKEN, now, fetch_failed, watch>>

\* a minute after the last firing the interval trigger fires again
Minute ==
    /\ last = Quiet
    /\ job.pc = "idle"
    /\ now + TicksPerMinute <= MaxMinutes * TicksPerMinute
    /\ now' = now + TicksPerMinute
    /\ job' = [pc |-> "iter", di_pos |-> 0, di_used |-> Len(users_storage), failed |-> {}]
    /\ last' = Outcome("fire", None, None, 0, "", <<>>, <<>>, <<>>, FALSE)
    /\ UNCHANGED <<users_storage, session, TELEGRAM_BOT_TOKEN, fetch_failed, watch>>

\* the iterator finds the dict's size changed: RuntimeError leaves the job
JobAbort ==
    /\ last = Quiet
    /\ job.pc = "iter"
    /\ Len(users_storage) # job.di_used
    /\ job' = IdleJob
    /\ last' = Outcome("job_abort", None, None, 0, "RuntimeError", <<>>, <<>>, <<>>, FALSE)
    /\ UNCHANGED <<users_storage, session, TELEGRAM_BOT_TOKEN, now, fetch_failed, watch>>

\* the iterator is exhausted: the job returns
JobDone ==
    /\ last = Quiet
    /\ job.pc = "iter"
    /\ Len(users_storage) = job.di_used
    /\ job.di_pos >= Len(users_storage)
    /\ job' = IdleJob
    /\ last' = Outcome("job_done", None, None, 0, "", <<>>, <<>>, <<>>, FALSE)
    /\ UNCHANGED <<users_storage, session, TELEGRAM_BOT_TOKEN, now, fetch_failed, watch>>

\* a fetch, a malformed event or a send went wrong in this pass
Troubled(r, api) ==
    \/ r.caught
    \/ r.raised
    \/ (Len(r.fetches) > 0 /\ ~api.ok)
    \/ \E i \in 1..Len(r.posts) : ~r.posts[i].ok

\* one pass of the loop body for the next item of users_storage
CheckUser(api, nets) ==
    /\ last = Quiet
    /\ job.pc = "iter"
    /\ Len(users_storage) = job.di_used
    /\ job.di_pos < Len(users_storage)
    /\ LET item == users_storage[job.di_pos + 1]
           r == check_user(item.value, api, now, TELEGRAM_BOT_TOKEN, nets)
       IN /\ job' = IF r.raised
                    THEN IdleJob
                    ELSE [job EXCEPT !.di_pos = job.di_pos + 1,
                                     !.failed = IF Troubled(r, api)
                                                THEN job.failed \cup {item.key}
                                                ELSE job.failed]
          /\ fetch_failed' = IF Len(r.fetches) > 0 /\ ~api.ok
                             THEN fetch_failed \cup {item.key}
                             ELSE fetch_failed \ {item.key}
          /\ last' = [Outcome("check_user", item.key, item.value.chat_id, 0, "",
                              r.fetches, r.events, r.posts, r.caught)
                         EXCEPT !.refetch = item.key \in fetch_failed]
          /\ watch' = IF /\ item.key = Watched
                         /\ Truthy(item.value.chat_id)
                         /\ \E i \in 1..Len(r.events) : r.events[i] = EvSoon
                      THEN [fetched |-> watch.fetched + 1,
                            reminded |-> watch.reminded
                                         + SendsOf(r.posts, ReminderText(SummaryOf(EvSoon)))]
                      ELSE watch
    /\ UNCHANGED <<users_storage, session, TELEGRAM_BOT_TOKEN, now>>

(***************************************************************************)
(* The HTTP routes.                                                        *)
(***************************************************************************)
\* GET /health
health ==
    /\ last = Quiet
    /\ last' = Outcome("health", None, None, 200, "ok", <<>>, <<>>, <<>>, FALSE)
    /\ UNCHANGED <<users_storage, session, TELEGRAM_BOT_TOKEN, now, job, fetch_failed, watch>>

\* GET /auth/google?user_id=&chat_id= in browser session s; state: the flow's fresh state
auth_google(s, telegram_user_id, chat_id, state) ==
    /\ last = Quiet
    /\ IF ~Truthy(telegram_user_id)
       THEN /\ session' = session
            /\ last' = Outcome("auth_google", telegram_user_id, chat_id, 400, "user_id is required",
                               <<>>, <<>>, <<>>, FALSE)
       ELSE /\ session' = [session EXCEPT ![s] = [telegram_user_id |-> telegram_user_id,
                                                  chat_id |-> chat_id, state |-> state]]
            /\ last' = Outcome("auth_google", telegram_user_id, chat_id, 302, "redirect",
                               <<>>, <<>>, <<>>, FALSE)
    /\ UNCHANGED <<users_storage, TELEGRAM_BOT_TOKEN, now, job, fetch_failed, watch>>

\* a plausible slip: the record is stored with its chat_id only
NewRecordChatOnly(token, chat_id) == [chat_id |-> chat_id]

\* lines 176-185: the record the callback stores
NewRecord(token, chat_id) ==
    [credentials |-> [token |-> token, refresh_token |-> token], chat_id |-> chat_id]

\* a plausible slip: the record is stored before the token exchange is known to succeed
callback_writing_first(sess, exchanged, token, bot_token, net) ==
    LET telegram_user_id == sess.telegram_user_id
        chat_id == sess.chat_id
        sent == send_telegram_message(chat_id, ConfirmationText,
                    PlatformAccepts(bot_token, chat_id, net))
    IN IF ~Truthy(telegram_user_id)
       THEN [write |-> FALSE, posts |-> <<>>, status |-> IF exchanged THEN 200 ELSE 400,
             reply |-> IF exchanged THEN "success_page" ELSE "error_text"]
       ELSE IF ~exchanged
       THEN [write |-> TRUE, posts |-> <<>>, status |-> 400, reply |-> "error_text"]
       ELSE IF ~Truthy(chat_id)
       THEN [write |-> TRUE, posts |-> <<>>, status |-> 200, reply |-> "success_page"]
       ELSE [write |-> TRUE, posts |-> sent.posts, status |-> 200, reply |-> "success_page"]

\* lines 167-208, given the outcome of flow.fetch_token and the token it got
callback(sess, exchanged, token, bot_token, net) ==
    LET telegram_user_id == sess.telegram_user_id
        chat_id == sess.chat_id
        sent == send_telegram_message(chat_id, ConfirmationText,
                    PlatformAccepts(bot_token, chat_id, net))
    IN IF ~exchanged
       THEN [write |-> FALSE, posts |-> <<>>, status |-> 400, reply |-> "error_text"]
       ELSE IF ~Truthy(telegram_user_id)
       THEN [write |-> FALSE, posts |-> <<>>, status |-> 200, reply |-> "success_page"]
       ELSE IF ~Truthy(chat_id)
       THEN [write |-> TRUE, posts |-> <<>>, status |-> 200, reply |-> "success_page"]
       ELSE IF sent.raised
       THEN [write |-> TRUE, posts |-> sent.posts, status |-> 400, reply |-> "error_text"]
       ELSE [write |-> TRUE, posts |-> sent.posts, status |-> 200, reply |-> "success_page"]

\* GET /auth/google/callback?state=&code= in browser session s
auth_google_callback(s, state, exchanged, token, net) ==
    /\ last = Quiet
    /\ LET r == callback(session[s], exchanged, token, TELEGRAM_BOT_TOKEN, net)
       IN /\ users_storage' = IF r.write
                              THEN Put(users_storage, session[s].telegram_user_id,
                                       NewRecord(token, session[s].chat_id))
                              ELSE users_storage
          /\ last' = [Outcome("callback", session[s].telegram_user_id, session[s].chat_id,
                              r.status, r.reply, <<>>, <<>>, r.posts, r.status = 400)
                         EXCEPT !.exchanged = exchanged, !.state = state,
                                !.record = NewRecord(token, session[s].chat_id)]
    /\ UNCHANGED <<session, TELEGRAM_BOT_TOKEN, now, job, fetch_failed, watch>>

\* user_id in users_storage
InStore(d, user_id) == user_id \in Keys(d)

\* lines 213-233
user_events(d, user_id, api) ==
    IF ~InStore(d, user_id)
    THEN [status |-> 401, reply |-> "User not authorized", fetches |-> <<>>, events |-> <<>>]
    ELSE IF "credentials" \notin DOMAIN Get(d, user_id)
    THEN [status |-> 401, reply |-> "No credentials", fetches |-> <<>>, events |-> <<>>]
    ELSE [status |-> 200, reply |-> "ok", fetches |-> <<Get(d, user_id).credentials>>,
          events |-> get_calendar_events(Get(d, user_id).credentials, api).events]

\* GET /events/<user_id>
get_user_events(user_id, api) ==
    /\ last = Quiet
    /\ LET r == user_events(users_storage, user_id, api)
       IN last' = Outcome("get_user_events", user_id, None, r.status, r.reply,
                          r.fetches, r.events, <<>>, FALSE)
    /\ UNCHANGED <<users_storage, session, TELEGRAM_BOT_TOKEN, now, job, fetch_failed, watch>>

Commands == {"/start", "/events", "/status", "/help"}

\* a plausible slip: "if users_storage:" for "if user_id in users_storage:"
status_reply_any(d, user_id) ==
    IF Len(d) > 0 THEN StatusConnectedText ELSE StatusNotConnectedText

\* lines 268-271
status_reply(d, user_id) ==
    IF InStore(d, user_id) THEN StatusConnectedText ELSE StatusNotConnectedText

\* a plausible slip: the help text tells how many users are connected
help_reply_counting(d) ==
    IF Len(d) > 1 THEN Text("help", "many", None, None, <<>>) ELSE HelpText

\* lines 275-282: a literal
help_reply(d) == HelpText

\* a plausible slip: an else branch that answers any other text with the help
unrecognized_helping(text) ==
    [reply |-> <<HelpText>>, fetches |-> <<>>, events |-> <<>>, raised |-> FALSE]

\* lines 246-285: the if/elif chain has no else branch
unrecognized(text) ==
    [reply |-> <<>>, fetches |-> <<>>, events |-> <<>>, raised |-> FALSE]

\* lines 246-283: the reply to send (none for other texts), the fetches made, a raise
command(d, user_id, chat_id, text, api) ==
    LET connected == InStore(d, user_id) /\ "credentials" \in DOMAIN Get(d, user_id)
        got == get_calendar_events(Get(d, user_id).credentials, api)
        fmt == FormatEvents(got.events)
    IN IF text = "/start"
       THEN [reply |-> <<StartText(user_id, chat_id)>>, fetches |-> <<>>, events |-> <<>>, raised |-> FALSE]
       ELSE IF text = "/events"
       THEN IF connected
            THEN IF Len(got.events) > 0
                 THEN IF fmt.raised
                      THEN [reply |-> <<>>, fetches |-> <<Get(d, user_id).credentials>>,
                            events |-> got.events, raised |-> TRUE]
                      ELSE [reply |-> <<EventsText(fmt.lines)>>, fetches |-> <<Get(d, user_id).credentials>>,
                            events |-> got.events, raised |-> FALSE]
                 ELSE [reply |-> <<NoEventsText>>, fetches |-> <<Get(d, user_id).credentials>>,
                       events |-> got.events, raised |-> FALSE]
            ELSE [reply |-> <<NotConnectedPromptText>>, fetches |-> <<>>, events |-> <<>>, raised |-> FALSE]
       ELSE IF text = "/status"
       THEN [reply |-> <<status_reply(d, user_id)>>,
             fetches |-> <<>>, events |-> <<>>, raised |-> FALSE]
       ELSE IF text = "/help"
       THEN [reply |-> <<help_reply(d)>>, fetches |-> <<>>, events |-> <<>>, raised |-> FALSE]
       ELSE unrecognized(text)

\* the payloads of a POST /webhook: an update with a message that has its chat and
\* sender, an update without a message, a message without its sender or without its
\* chat, a body that is empty or not JSON
Shapes == {"message", "no_message", "no_sender", "no_chat", "not_json"}

\* line 238 on a body that is not JSON: get_json answers 400 or 415, or returns None
\* and line 240 raises, whichever the installed Flask does
BadBodyStatus == {400, 415, 500}

\* POST /webhook; for the shape "message": from user_id in chat chat_id with this text
\* ("" when the message has no text); status 200 is the response {"ok": true}
telegram_webhook(shape, user_id, chat_id, text, api, net) ==
    /\ last = Quiet
    /\ LET c == command(users_storage, user_id, chat_id, text, api)
           sent == IF Len(c.reply) = 0 \/ c.raised
                   THEN [posts |-> <<>>, ret |-> FALSE, raised |-> FALSE]
                   ELSE send_telegram_message(chat_id, c.reply[1],
                            PlatformAccepts(TELEGRAM_BOT_TOKEN, chat_id, net))
           done(status) == [Outcome("webhook", None, None, status, "", <<>>, <<>>, <<>>, FALSE)
                               EXCEPT !.shape = shape]
       IN IF shape = "not_json"
          THEN \E status \in BadBodyStatus : last' = done(status)
          ELSE IF shape = "no_message"
          THEN last' = done(200)
          ELSE IF shape \in {"no_sender", "no_chat"}
          THEN last' = done(500)
          ELSE last' = [Outcome("webhook", user_id, chat_id,
                                IF c.raised \/ sent.raised THEN 500 ELSE 200,
                                text, c.fetches, c.events, sent.posts, FALSE)
                           EXCEPT !.shape = shape]
    /\ UNCHANGED <<users_storage, session, TELEGRAM_BOT_TOKEN, now, job, fetch_failed, watch>>

\* GET /set_webhook: one GET to the platform, its JSON passed on; a failed call raises
set_webhook(net) ==
    /\ last = Quiet
    /\ last' = Outcome("set_webhook", None, None, IF net THEN 200 ELSE 500, "json",
                       <<>>, <<>>, <<>>, FALSE)
    /\ UNCHANGED <<users_storage, session, TELEGRAM_BOT_TOKEN, now, job, fetch_failed, watch>>

\* GET /delete_webhook
delete_webhook(net) ==
    /\ last = Quiet
    /\ last' = Outcome("delete_webhook", None, None, IF net THEN 200 ELSE 500, "json",
                       <<>>, <<>>, <<>>, FALSE)
    /\ UNCHANGED <<users_storage, session, TELEGRAM_BOT_TOKEN, now, job, fetch_failed, watch>>

\* texts of a message: the commands, another text, no text, a command with more after it
Texts == Commands \cup {"other", "", "/status now"}

\* the network's answers to the sends of one pass of the job: one per event fetched
NetsFor(api) == [1..Len(api.items) -> BOOLEAN]

\* the network's answers to the reply to a command, if there is one
NetFor(text) == IF text \in Commands THEN BOOLEAN ELSE {FALSE}

\* the operation returns: its response, posts and log lines are out
Return ==
    /\ last # Quiet
    /\ last' = Quiet
    /\ UNCHANGED <<users_storage, session, TELEGRAM_BOT_TOKEN, now, job, fetch_failed, watch>>

(***************************************************************************)
(* Spec: every route and the job, the calendar returning at most one event *)
(* and the clock standing still.  An action is a whole handler, or a whole *)
(* pass of the job's loop, so the operations are taken one at a time: the  *)
(* next one starts when the last one has returned.                         *)
(***************************************************************************)
Next ==
    \/ Return
    \/ Fire
    \/ JobAbort
    \/ JobDone
    \/ \E api \in ApiBrief : \E nets \in NetsFor(api) : CheckUser(api, nets)
    \/ health
    \/ \E s \in Sessions, u \in UserIds \cup {None}, c \in ChatIds \cup {None}, st \in OAuthStates :
           auth_google(s, u, c, st)
    \/ \E s \in Sessions, st \in OAuthStates \cup {None}, exchanged \in BOOLEAN :
           \E token \in Tokens, net \in BOOLEAN : auth_google_callback(s, st, exchanged, token, net)
    \/ \E u \in UserIds, api \in ApiBrief : get_user_events(u, api)
    \/ \E u \in UserIds, c \in ChatIds, text \in Texts :
           \E api \in IF text = "/events" THEN ApiBrief ELSE {NoApi}, net \in NetFor(text) :
               telegram_webhook("message", u, c, text, api, net)
    \/ \E shape \in Shapes \ {"message"} : telegram_webhook(shape, None, None, "", NoApi, FALSE)
    \/ \E net \in BOOLEAN : set_webhook(net)
    \/ \E net \in BOOLEAN : delete_webhook(net)

Spec == Init /\ [][Next]_vars

(***************************************************************************)
(* SpecJob: authorizations and the job, the calendar returning up to       *)
(* MaxEvents events and the clock advancing.                               *)
(***************************************************************************)
NextJob ==
    \/ Return
    \/ Tick
    \/ Fire
    \/ JobAbort
    \/ JobDone
    \/ \E api \in ApiResults : \E nets \in NetsFor(api) : CheckUser(api, nets)
    \/ \E s \in Sessions, u \in UserIds, c \in ChatIds \cup {None}, st \in OAuthStates :
           auth_google(s, u, c, st)
    \/ \E s \in Sessions, token \in Tokens, net \in BOOLEAN :
           auth_google_callback(s, session[s].state, TRUE, token, net)


SpecJob == Init /\ [][NextJob]_vars

(***************************************************************************)
(* SpecTimer: authorizations and the job, the interval trigger firing      *)
(* exactly one minute after the last firing, none skipped, the calendar of *)
(* a user holding the event EvSoon.                                        *)
(***************************************************************************)
NextTimer ==
    \/ Return
    \/ Minute
    \/ JobAbort
    \/ JobDone
    \/ \E api \in ApiTimer : \E nets \in NetsFor(api) : CheckUser(api, nets)
    \/ \E s \in Sessions, u \in UserIds, c \in ChatIds \cup {None}, st \in OAuthStates :
           auth_google(s, u, c, st)
    \/ \E s \in Sessions, token \in Tokens, net \in BOOLEAN :
           auth_google_callback(s, session[s].state, TRUE, token, net)

SpecTimer == Init /\ [][NextTimer]_vars

(***************************************************************************)
(* The properties.                                                         *)
(***************************************************************************)
\* the instant a start value denotes
StartInstant(start) == start.wall - start.off

\* start is a date-time that is 14 to 16 minutes after time t
DueAt(start, t) ==
    /\ start.kind = "dateTime"
    /\ BandLow * TicksPerMinute <= StartInstant(start) - t
    /\ StartInstant(start) - t <= BandHigh * TicksPerMinute

\* the reminder posts made for an event, and how often the fetch returned the event
RemindersOf(posts, event) ==
    Cardinality({j \in 1..Len(posts) : posts[j].text = ReminderText(SummaryOf(event))})

Occurrences(events, event) == Cardinality({i \in 1..Len(events) : events[i] = event})

Malformed(events) == \E i \in 1..Len(events) : events[i].start.kind = "none"

\* C1: in a pass of the job over a user, every event of the fetch whose start is a
\* date-time 14 to 16 minutes from now gets exactly one reminder send call, whatever
\* the other events of the fetch.
C1_ExactlyOneReminder ==
    last.op = "check_user" =>
        \A i \in 1..Len(last.events) :
            DueAt(last.events[i].start, now) =>
                RemindersOf(last.posts, last.events[i]) = Occurrences(last.events, last.events[i])

\* C2: a pass of the job makes a reminder send call only for an event of the fetch
\* whose start is a date-time 14 to 16 minutes from now.
C2_OnlyDueEvents ==
    last.op = "check_user" =>
        \A j \in 1..Len(last.posts) :
            \E i \in 1..Len(last.events) :
                /\ DueAt(last.events[i].start, now)
                /\ last.posts[j].text = ReminderText(SummaryOf(last.events[i]))

\* C3: when the fetch for an authorized user returns one date-time event 14 to 16
\* minutes from now, the pass sends exactly one reminder, to the chat id the user's
\* authorization stored, with the event's summary in its text.
C3_OneReminderToStoredChat ==
    (/\ last.op = "check_user"
     /\ Truthy(last.chat_id)
     /\ Len(last.events) = 1
     /\ DueAt(last.events[1].start, now)) =>
        /\ Len(last.posts) = 1
        /\ last.posts[1].chat_id = Get(users_storage, last.user_id).chat_id
        /\ last.posts[1].text.summary = SummaryOf(last.events[1])

\* an event the band test can only read one way: written in UTC, no event without a
\* start value before it in the same fetch
PlainDue(events, i, t) ==
    /\ DueAt(events[i].start, t)
    /\ events[i].start.off = 0
    /\ \A k \in 1..(i - 1) : events[k].start.kind # "none"

C4_PassOfOther ==
    (last.op = "check_user" /\ job.failed \ {last.user_id} # {}) =>
        /\ Len(last.fetches) = 1
        /\ \A i \in 1..Len(last.events) :
               PlainDue(last.events, i, now) => RemindersOf(last.posts, last.events[i]) >= 1

C4_PassAdvances ==
    (last = Quiet /\ last'.op = "check_user") => (job'.pc = "iter" /\ job'.di_pos = job.di_pos + 1)

\* C4: within one cycle a failure while processing user U (a failed fetch, an event
\* without a start value, a failed send) does not keep another user V from being
\* processed: every pass, failed or not, moves the job on to the next user, and in
\* the pass of V after a failed U the fetch is made and V's due events are reminded.
C4_Isolation == []C4_PassOfOther /\ [][C4_PassAdvances]_vars

C4_Witness ==
    /\ last.op = "check_user"
    /\ job.failed \ {last.user_id} # {}
    /\ \E i \in 1..Len(last.events) : PlainDue(last.events, i, now)
    /\ Len(last.posts) > 0

\* C5: for a user id without a record, GET /events/<user_id> answers 401, /status
\* replies "not connected", /events replies the "connect first" prompt, and none of
\* them fetches from the calendar.
C5_AbsentUser ==
    (last.op \in {"get_user_events", "webhook"} /\ ~InStore(users_storage, last.user_id)) =>
        /\ last.fetches = <<>>
        /\ last.op = "get_user_events" => last.status = 401
        /\ (last.op = "webhook" /\ last.reply = "/status") =>
               (Len(last.posts) = 1 /\ last.posts[1].text = StatusNotConnectedText)
        /\ (last.op = "webhook" /\ last.reply = "/events") =>
               (Len(last.posts) = 1 /\ last.posts[1].text = NotConnectedPromptText)

C5_Witness ==
    /\ last.op = "webhook"
    /\ last.reply = "/status"
    /\ ~InStore(users_storage, last.user_id)
    /\ Len(users_storage) > 0
    /\ Len(last.posts) = 1

\* C6: get_calendar_events never raises and returns the empty list when the fetch
\* fails; in the job a user whose fetch fails gets no reminder and one fetch only, the
\* cycle goes on, and the user is fetched again in a later firing.
C6_FailedFetch ==
    last.op = "check_user" =>
        /\ last.caught => Malformed(last.events)
        /\ last.user_id \in fetch_failed =>
               /\ Len(last.fetches) = 1
               /\ last.events = <<>>
               /\ last.posts = <<>>
               /\ job.pc = "iter"
               /\ job.di_pos >= 1
        /\ last.refetch => Len(last.fetches) = 1

C6_Witness ==
    /\ last.op = "check_user"
    /\ last.refetch
    /\ Len(last.fetches) = 1
    /\ Len(last.posts) > 0

\* C7: send_telegram_message makes one POST, returns whether the platform accepted it
\* (False without a bot token) and never raises; the job, the webhook and the OAuth
\* callback call it once per message and go on when it fails.
C7_OneAttempt ==
    /\ \A j \in 1..Len(last.posts) :
           /\ last.posts[j].ret = last.posts[j].ok
           /\ TELEGRAM_BOT_TOKEN = None => ~last.posts[j].ret
    /\ last.op = "webhook" =>
           /\ Len(last.posts) <= 1
           /\ last.status = 500 =>
                  (last.posts = <<>> /\ (Malformed(last.events) \/ last.shape # "message"))
           /\ (last.status = 200 /\ last.reply \in Commands) => Len(last.posts) = 1
    /\ last.op = "callback" =>
           /\ Len(last.posts) <= 1
           /\ last.status = 400 => (last.posts = <<>> /\ ~last.exchanged)
    /\ last.op = "check_user" =>
           /\ \A i \in 1..Len(last.events) :
                  RemindersOf(last.posts, last.events[i]) <= Occurrences(last.events, last.events[i])
           /\ Len(last.posts) <= Len(last.events)
           /\ last.caught => Malformed(last.events)
    /\ last.op \notin {"webhook", "callback", "check_user"} => last.posts = <<>>

C7_Witness ==
    /\ last.op = "webhook"
    /\ last.status = 200
    /\ TELEGRAM_BOT_TOKEN = None
    /\ Len(last.posts) = 1
    /\ ~last.posts[1].ret

\* C8: the job fetches and sends only for records with a chat destination: a pass
\* over a record whose chat_id is empty makes no fetch and no send.
C8_NoChatNoFetch ==
    (last.op = "check_user" /\ ~Truthy(last.chat_id)) =>
        (last.fetches = <<>> /\ last.posts = <<>>)

\* the store after a callback that wrote the record of user U with chat C
WroteRecord(U, C) ==
    /\ InStore(users_storage', U)
    /\ Get(users_storage', U).chat_id = C
    /\ Keys(users_storage') = Keys(users_storage) \cup {U}
    /\ \A k \in Keys(users_storage) \ {U} : Get(users_storage', k) = Get(users_storage, k)

OneConfirmation(posts, C) ==
    /\ Len(posts) = 1
    /\ posts[1].chat_id = C
    /\ posts[1].text = ConfirmationText

CallbackStep == last = Quiet /\ last'.op = "callback"

\* C9 as stated: the callback writes the record of the session's user exactly when
\* the exchange succeeded, and then sends exactly one confirmation to the stashed
\* chat id; a failed exchange answers the plain-text error (400), writes nothing and
\* sends nothing.
C9_Original ==
    [][CallbackStep =>
          /\ (last'.exchanged /\ Truthy(last'.user_id)) =>
                 /\ WroteRecord(last'.user_id, last'.chat_id)
                 /\ OneConfirmation(last'.posts, last'.chat_id)
          /\ ~(last'.exchanged /\ Truthy(last'.user_id)) =>
                 /\ users_storage' = users_storage
                 /\ last'.posts = <<>>
          /\ ~last'.exchanged => (last'.status = 400 /\ last'.reply = "error_text")
      ]_vars

\* C9 amended: the same, the confirmation being sent exactly when a chat id was
\* stashed: with an empty stashed chat id the record is written and nothing is sent.
C9_Amended ==
    [][CallbackStep =>
          /\ (last'.exchanged /\ Truthy(last'.user_id)) =>
                 /\ WroteRecord(last'.user_id, last'.chat_id)
                 /\ IF Truthy(last'.chat_id)
                    THEN OneConfirmation(last'.posts, last'.chat_id)
                    ELSE last'.posts = <<>>
          /\ ~(last'.exchanged /\ Truthy(last'.user_id)) =>
                 /\ users_storage' = users_storage
                 /\ last'.posts = <<>>
          /\ ~last'.exchanged => (last'.status = 400 /\ last'.reply = "error_text")
      ]_vars

C9_Witness ==
    /\ last.op = "callback"
    /\ last.exchanged
    /\ Truthy(last.user_id)
    /\ ~Truthy(last.chat_id)
    /\ InStore(users_storage, last.user_id)
    /\ Len(users_storage) > 1
    /\ last.posts = <<>>

\* C10: users_storage changes only in a callback whose exchange succeeded, and no
\* operation removes a user id from it.
C10_StoreFrame ==
    [][/\ users_storage' # users_storage =>
              (last'.op = "callback" /\ last'.exchanged /\ Truthy(last'.user_id))
       /\ Keys(users_storage) \subseteq Keys(users_storage')
      ]_vars

C10_Witness ==
    /\ last.op = "callback"
    /\ last.exchanged
    /\ Len(users_storage) > 1
    /\ job.pc = "iter"

\* C11: every POST /webhook ends with the response {"ok": true}, whatever the shape
\* of the payload and whatever happens while the command is handled.
C11_AlwaysOk ==
    last.op = "webhook" => last.status = 200

\* C12: for a message whose text is not exactly one of the four commands (no text and
\* a command with more after it included) the handler sends nothing, fetches nothing,
\* leaves users_storage as it was and answers without an error.
C12_OtherTextIgnored ==
    [][(/\ last = Quiet
        /\ last'.op = "webhook"
        /\ last'.shape = "message"
        /\ last'.reply \notin Commands) =>
           /\ last'.posts = <<>>
           /\ last'.fetches = <<>>
           /\ last'.status = 200
           /\ users_storage' = users_storage
      ]_vars

C12_Witness ==
    /\ last.op = "webhook"
    /\ last.shape = "message"
    /\ last.reply = "/status now"
    /\ InStore(users_storage, last.user_id)
    /\ last.posts = <<>>
    /\ last.status = 200

\* the records a callback can build, and the dicts of them
Records == {NewRecord(t, c) : t \in Tokens, c \in ChatIds \cup {None}}

Stores ==
    {d \in SeqsUpTo([key : UserIds, value : Records], NumUsers) :
        \A i, j \in 1..Len(d) : d[i].key = d[j].key => i = j}

TextsOf(posts) == [j \in 1..Len(posts) |-> posts[j].text]

\* C13: the reply to a command is a function of the text, the sender's user and chat
\* id, whether the sender has a record, and the list the calendar fetch returned: the
\* handler run in any other store that agrees on the sender's record being present
\* gives the reply that was sent, whatever was received before; the /help reply is
\* one text in every store.
C13_ReplyDetermined ==
    (last.op = "webhook" /\ last.shape = "message") =>
        /\ \A d \in Stores :
               (InStore(d, last.user_id) <=> InStore(users_storage, last.user_id)) =>
                   LET c == command(d, last.user_id, last.chat_id, last.reply,
                                    [ok |-> TRUE, items |-> last.events])
                   IN IF c.raised
                      THEN last.status = 500 /\ last.posts = <<>>
                      ELSE last.status = 200 /\ TextsOf(last.posts) = c.reply
        /\ last.reply = "/help" => TextsOf(last.posts) = <<HelpText>>

C13_Witness ==
    /\ last.op = "webhook"
    /\ last.shape = "message"
    /\ last.reply = "/events"
    /\ InStore(users_storage, last.user_id)
    /\ Len(users_storage) > 1
    /\ Len(last.posts) = 1
    /\ last.posts[1].text.kind = "events_list"

\* C14: a cycle that has started runs to completion: it ends only when every record
\* that was in users_storage when it started has been processed, also when a callback
\* inserts a user id meanwhile.
C14_CycleCompletes ==
    [][(job.pc = "iter" /\ job'.pc = "idle") => job.di_pos >= job.di_used]_vars

\* C15 (writes): after a step of a callback whose exchange succeeded the record of
\* its user is exactly the record it built; every other record in users_storage is
\* the record it was before the step
C15_WholeWrite ==
    \A u \in Keys(users_storage') :
        IF CallbackStep /\ last'.exchanged /\ last'.user_id = u
        THEN Get(users_storage', u) = last'.record
        ELSE u \in Keys(users_storage) /\ Get(users_storage', u) = Get(users_storage, u)

\* C15 (reads): the credentials and the chat id an operation used for a user are
\* those of the user's one stored record
C15_WholeRead ==
    /\ (last.op = "check_user" /\ last.fetches # <<>>) =>
           /\ last.fetches[1] = Get(users_storage, last.user_id).credentials
           /\ last.chat_id = Get(users_storage, last.user_id).chat_id
           /\ \A j \in 1..Len(last.posts) : last.posts[j].chat_id = last.chat_id
    /\ (last.op \in {"get_user_events", "webhook"} /\ last.fetches # <<>>) =>
           last.fetches[1] = Get(users_storage, last.user_id).credentials

BandPassed(event, t) ==
    StartInstant(event.start) - (t + TicksPerMinute) < BandLow * TicksPerMinute

\* C16: with firings one minute apart, none skipped, the user authorized with a chat
\* all along and every fetch returning the event from 16 minutes before its start on,
\* some firing makes a reminder send call for the event before it starts.
C16_AtLeastOnce ==
    (/\ job.pc = "idle"
     /\ last = Quiet
     /\ BandPassed(EvSoon, now)
     /\ watch.fetched = now \div TicksPerMinute) =>
        watch.reminded >= 1

\* C17: with firings one minute apart an event is 14 to 16 minutes away in at most
\* one firing, so at most one reminder send call is made for it.
C17_AtMostOnce ==
    watch.reminded <= 1

\* C18: two date-time events of one fetch that denote the same instant get the same
\* reminder decision in the pass, whatever UTC offsets they are written with.
C18_SameInstantSameDecision ==
    (last.op = "check_user" /\ ~Malformed(last.events)) =>
        \A i, j \in 1..Len(last.events) :
            (/\ last.events[i].start.kind = "dateTime"
             /\ last.events[j].start.kind = "dateTime"
             /\ StartInstant(last.events[i].start) = StartInstant(last.events[j].start)) =>
                (RemindersOf(last.posts, last.events[i]) >= 1
                     <=> RemindersOf(last.posts, last.events[j]) >= 1)

\* C19: a callback changes users_storage only when the state of the authorization
\* response is the state step one stashed in the session.
C19_StateChecked ==
    [][(CallbackStep /\ users_storage' # users_storage) =>
           /\ last'.state # None
           /\ \E s \in Sessions :
                  /\ session[s].telegram_user_id = last'.user_id
                  /\ session[s].state = last'.state
      ]_vars

\* C20: every record in users_storage has a credentials entry and a chat_id entry,
\* and for every user id /status replies "connected" exactly when /events and
\* GET /events/<user_id> pass their credentials check.
C20_StoredMeansEligible ==
    /\ \A i \in 1..Len(users_storage) :
           {"credentials", "chat_id"} \subseteq DOMAIN users_storage[i].value
    /\ \A u \in UserIds :
           LET connected == status_reply(users_storage, u) = StatusConnectedText
           IN /\ connected <=> user_events(users_storage, u, NoApi).status = 200
              /\ \A c \in ChatIds :
                     connected <=>
                         command(users_storage, u, c, "/events", NoApi).reply
                             # <<NotConnectedPromptText>>

C20_Witness ==
    /\ Len(users_storage) > 0
    /\ Keys(users_storage) # UserIds
    /\ \E i \in 1..Len(users_storage) : ~Truthy(users_storage[i].value.chat_id)
    /\ last.op = "webhook"
    /\ last.reply = "/status"
    /\ Len(last.posts) = 1
    /\ last.posts[1].text = StatusConnectedText

====
